---- MODULE Spec2Model ----
(***************************************************************************)
(* Model of the Service worker (services.py) and of the services built on  *)
(* it (Player, Photographer, Animator), driven either by arbitrary clients *)
(* (Spec) or by the capture loop of face_cap.py (LoopSpec).                *)
(***************************************************************************)
EXTENDS Integers, Sequences, FiniteSets, TLC

\* ------------------------------------------------------------------ bounds
\* Requests the clients of Spec submit, over all services together.
MaxReq == 3
\* close() calls the clients of Spec make, over all services together.
MaxClose == 2
\* Thread slots per Service (the code starts one of them).
MaxThreads == 2
\* Inference results the capture loop consumes in LoopSpec.
MaxCycles == 2
\* Messages the client of PhotoSpec submits to the Photographer.
MaxPhotoReq == 3
\* Clock ticks that pass in PhotoSpec.
MaxTime == 2

Services == {"player", "photographer", "animator"}
ThreadIds == 1..MaxThreads

\* The termination sentinel: close() puts None on the queue.
None == [id |-> 0, kind |-> "None", val |-> <<>>]

\* joy scores an Animator is sent (tenths): 0 and below switch the LEDs off.
Scores == {0, 10}

\* Detection batches: (faces, (frame_width, frame_height)); a face is
\* (bounding_box, joy_score in tenths).
Face1 == [bounding_box |-> <<10, 10, 50, 50>>, joy_score |-> 9]
Face2 == [bounding_box |-> <<30, 20, 40, 60>>, joy_score |-> 2]
Face3 == [bounding_box |-> <<100, 80, 20, 30>>, joy_score |-> 5]
NoFaces == <<<<>>, <<320, 240>>>>
OneFace == <<<<Face1>>, <<320, 240>>>>
TwoFaces == <<<<Face2, Face3>>, <<160, 120>>>>
Batches == {NoFaces, OneFace, TwoFaces}

\* PiCamera(sensor_mode=4, resolution=(820, 616)), and a second resolution a
\* camera handed to Photographer.shoot can have.
CameraResolution == <<820, 616>>
Resolutions == {CameraResolution, <<1640, 1232>>}

IMAGE_FORMAT == "jpeg"
IMAGE_FOLDER == "./captures"
SLEEP_SECONDS == 600

\* Clock ticks per second: the clock is finer than the %S of strftime.
TicksPerSecond == 2

BEEP_SOUND == <<"E6q", "C6q">>

VARIABLES
    queue,      \* Service._requests, per service: the items not yet taken
    pc,         \* per service and thread slot: where the thread of _run is
    request,    \* per service and thread slot: the local `request` of _run
    log,        \* per service: what its consumer did, in order (history)
    submitted,  \* per service: the requests submit() was called with (history)
    closer,     \* per service: the context calling close(): where it is,
                \* how many requests had been submitted when it called, and
                \* how many close() calls have returned (history)
    leds,       \* the state the Animator left the RGB LEDs in: <<mode, joy score>>
    faces,      \* Photographer._faces
    shots,      \* the cached pair each processed capture used (history)
    mpc,        \* where the main thread is in main() / capture_loop()
    stack,      \* the ExitStack of capture_loop: what was entered, in order
    released,   \* what the ExitStack has exited so far, in order (history)
    exc,        \* the exception capture_loop is leaving with, "none" if none
    results,    \* the inference results the for loop has consumed (history)
    dispatch,   \* what the loop submitted: <<cycle, service, kind>> (history)
    blink,      \* whether main() showed the red blink pattern
    status,     \* what main() returned, -1 while it runs
    now,        \* the wall clock, in ticks
    slept,      \* how many sleep(SLEEP_SECONDS) calls have returned (history)
    acquired,   \* what enter_context has entered, in order (history)
    leave       \* how and where the body of the with block was left (history)

svars == <<queue, pc, request, log, submitted, closer, leds, faces, shots, now>>
lvars == <<mpc, stack, released, exc, results, dispatch, blink, status, slept, acquired, leave>>
vars == <<svars, lvars>>

\* ------------------------------------------------------------- the queue
\* queue.Queue(): unbounded, put never blocks, get takes the oldest item.
\* (variant: a queue of capacity one whose put drops when it is full)
QueuePutDropBusy(q, item) == IF Len(q) >= 1 THEN q ELSE Append(q, item)
QueuePut(q, item) == Append(q, item)

\* (variant: a LifoQueue)
QueueGetLifo(q) == <<q[Len(q)], SubSeq(q, 1, Len(q) - 1)>>
QueueGet(q) == <<Head(q), Tail(q)>>

\* ----------------------------------------------------------- construction
\* Service.__init__ starts one thread running _run.
\* (variant: a second thread started on the same queue)
ThreadsStartedTwice == {1, 2}
ThreadsStarted == {1}

Started == [t \in ThreadIds |-> IF t \in ThreadsStarted THEN "get" ELSE "unstarted"]
NotStarted == [t \in ThreadIds |-> "unstarted"]

\* Photographer.__init__: self._faces = ([], (0, 0))
InitialFaces == <<<<>>, <<0, 0>>>>

\* The services as their constructors leave them, with `built` constructed.
InitServices(built) ==
    /\ queue = [s \in Services |-> <<>>]
    /\ pc = [s \in Services |-> IF s \in built THEN Started ELSE NotStarted]
    /\ request = [s \in Services |-> [t \in ThreadIds |-> None]]
    /\ log = [s \in Services |-> <<>>]
    /\ submitted = [s \in Services |-> <<>>]
    /\ closer = [s \in Services |-> [state |-> "idle", snap |-> 0, returns |-> 0]]
    /\ leds = <<"rgb_off", 0>>
    /\ faces = InitialFaces
    /\ shots = <<>>
    /\ now = 0

\* The main thread before main() is called (Spec never calls it).
InitMain(at) ==
    /\ mpc = at
    /\ stack = <<>>
    /\ released = <<>>
    /\ exc = "none"
    /\ results = <<>>
    /\ dispatch = <<>>
    /\ blink = FALSE
    /\ status = -1
    /\ slept = 0
    /\ acquired = <<>>
    /\ leave = [how |-> "none", at |-> "none"]

\* The services the clients of Spec construct and drive.
ClientServices == {"player", "animator"}

Init == InitServices(ClientServices) /\ InitMain("off")

\* ------------------------------------------------------------ the consumer
Alive(s, t) == pc[s][t] \in {"get", "process", "shutdown"}

\* Whether process(request) can raise: Player.process plays on the buzzer,
\* Animator.process updates the LEDs, Photographer.process captures and
\* writes files unless the message is a tuple, which it only stores.
CanRaise(s, r) ==
    CASE s = "player" -> TRUE
      [] s = "animator" -> TRUE
      [] s = "photographer" -> r.kind # "tuple"

\* _run: request = self._requests.get(); None leads to shutdown(), anything
\* else to process(request).
Get(s, t) ==
    /\ pc[s][t] = "get"
    /\ queue[s] # <<>>
    /\ LET got == QueueGet(queue[s]) IN
        /\ queue' = [queue EXCEPT ![s] = got[2]]
        /\ request' = [request EXCEPT ![s][t] = got[1]]
        /\ IF got[1] = None
             THEN /\ pc' = [pc EXCEPT ![s][t] = "shutdown"]
                  /\ log' = [log EXCEPT ![s] = Append(@, <<"None", 0>>)]
             ELSE /\ pc' = [pc EXCEPT ![s][t] = "process"]
                  /\ log' = [log EXCEPT ![s] = Append(@, <<"start", got[1].id>>)]
    /\ UNCHANGED <<lvars, submitted, closer, leds, faces, shots, now>>

\* ---------------------------------------------------------- Photographer
\* The scale factors are quotients (image.width / width), here exact
\* rationals <<numerator, denominator>> in lowest terms: an integer times a
\* rational, the sum of two rationals, and their equality.
RECURSIVE GCD(_, _)
GCD(a, b) == IF b = 0 THEN a ELSE GCD(b, a % b)
RNorm(q) == LET g == GCD(q[1], q[2]) IN <<q[1] \div g, q[2] \div g>>
RMul(a, q) == RNorm(<<a * q[1], q[2]>>)
RAdd(p, q) == RNorm(<<p[1] * q[2] + q[1] * p[2], p[2] * q[2]>>)
REq(p, q) == p[1] * q[2] = q[1] * p[2]

\* (variant: the height is scaled by scale_x)
scale_bounding_box_x_only(bounding_box, scale_x, scale_y) ==
    <<RMul(bounding_box[1], scale_x), RMul(bounding_box[2], scale_y),
      RMul(bounding_box[3], scale_x), RMul(bounding_box[4], scale_x)>>

scale_bounding_box(bounding_box, scale_x, scale_y) ==
    <<RMul(bounding_box[1], scale_x), RMul(bounding_box[2], scale_y),
      RMul(bounding_box[3], scale_x), RMul(bounding_box[4], scale_y)>>

bounding_extent_to_corners(bounding_box, image_size) ==
    LET x == bounding_box[1]
        y == bounding_box[2]
        width == bounding_box[3]
        height == bounding_box[4]
    IN  <<x, y, RAdd(x, width), RAdd(y, height)>>

\* time.strftime('%Y-%m-%d_%H.%M.%S'): the clock cut to whole seconds.
Timestamp(clock) == clock \div TicksPerSecond

\* Photographer._make_filename: the pieces of the path, in order.
MakeFilename(timestamp, suffix) ==
    IF Len(suffix) > 0
      THEN <<IMAGE_FOLDER, "/", timestamp, "_", suffix, ".", IMAGE_FORMAT>>
      ELSE <<IMAGE_FOLDER, "/", timestamp, suffix, ".", IMAGE_FORMAT>>

\* The camera a capture is invoked on is open: in the capture loop, between
\* its enter_context and its exit.
CameraOpen == mpc = "off" \/ \E i \in 1..Len(stack) : stack[i] = "camera"

\* scale_x, scale_y = image.width / width, image.height / height
DivisionByZero(cache) == cache[1] # <<>> /\ (cache[2][1] = 0 \/ cache[2][2] = 0)

\* Photographer.process(camera), lines 147-176, run to the end: the capture,
\* the original saved, and with cached faces one crop per face of which the
\* last one is saved.
Shoot(message, cache, clock) ==
    LET timestamp == Timestamp(clock)
        image_size == message.val
        scale_x == <<image_size[1], cache[2][1]>>
        scale_y == <<image_size[2], cache[2][2]>>
        crops == [i \in 1..Len(cache[1]) |->
                    bounding_extent_to_corners(
                        scale_bounding_box(cache[1][i].bounding_box, scale_x, scale_y),
                        image_size)]
        original == [path |-> MakeFilename(timestamp, ""), content |-> <<"original">>]
        cropped == [path |-> MakeFilename(timestamp, "cropped"),
                    content |-> <<"crop", crops[Len(crops)]>>]
    IN  [id |-> message.id, timestamp |-> timestamp, image_size |-> image_size,
         cache |-> cache, open |-> CameraOpen, crops |-> crops,
         writes |-> IF cache[1] # <<>> THEN <<original, cropped>> ELSE <<original>>]

\* The same call left by an error: in the capture or the save of the original
\* (nothing written), or after the original was saved.
ShootRaise(message, cache, clock, late) ==
    [id |-> message.id, timestamp |-> Timestamp(clock), image_size |-> message.val,
     cache |-> cache, open |-> CameraOpen, crops |-> <<>>,
     writes |-> IF late
                  THEN <<[path |-> MakeFilename(Timestamp(clock), ""), content |-> <<"original">>]>>
                  ELSE <<>>]

\* (variant: a tuple extends the cached faces instead of replacing the pair)
PhotographerCacheMerged(message, cache) ==
    IF message.kind = "tuple" THEN <<cache[1] \o message.val[1], message.val[2]>> ELSE cache

\* Photographer.process, lines 143-145: a tuple replaces self._faces.
PhotographerCache(message, cache) ==
    IF message.kind = "tuple" THEN message.val ELSE cache

IsShot(s, r) == s = "photographer" /\ r.kind # "tuple"

\* Animator.process
AnimatorProcess(joy_score) == IF joy_score > 0 THEN <<"rgb_on", joy_score>> ELSE <<"rgb_off", 0>>

\* process(request) returns, then task_done() and the next turn of the loop.
ProcessReturn(s, t) ==
    /\ pc[s][t] = "process"
    /\ IsShot(s, request[s][t]) => CameraOpen /\ ~DivisionByZero(faces)
    /\ pc' = [pc EXCEPT ![s][t] = "get"]
    /\ log' = [log EXCEPT ![s] = Append(@, <<"end", request[s][t].id>>)]
    /\ leds' = IF s = "animator" THEN AnimatorProcess(request[s][t].val) ELSE leds
    /\ faces' = IF s = "photographer" THEN PhotographerCache(request[s][t], faces) ELSE faces
    /\ shots' = IF IsShot(s, request[s][t])
                  THEN Append(shots, Shoot(request[s][t], faces, now)) ELSE shots
    /\ UNCHANGED <<lvars, queue, request, submitted, closer, now>>

\* (variant: _run catches the error and goes on with the next request)
ProcessRaiseCaught(s, t) ==
    /\ pc[s][t] = "process"
    /\ CanRaise(s, request[s][t])
    /\ pc' = [pc EXCEPT ![s][t] = "get"]
    /\ log' = [log EXCEPT ![s] = Append(@, <<"raise", request[s][t].id>>)]
    /\ UNCHANGED <<lvars, queue, request, submitted, closer, leds, faces, shots, now>>

\* process(request) raises: nothing in _run catches it, the thread ends.
ProcessRaise(s, t) ==
    /\ pc[s][t] = "process"
    /\ CanRaise(s, request[s][t])
    /\ pc' = [pc EXCEPT ![s][t] = "raised"]
    /\ log' = [log EXCEPT ![s] = Append(@, <<"raise", request[s][t].id>>)]
    /\ IF IsShot(s, request[s][t])
         THEN \E late \in BOOLEAN :
                /\ late => CameraOpen
                /\ shots' = Append(shots, ShootRaise(request[s][t], faces, now, late))
         ELSE shots' = shots
    /\ UNCHANGED <<lvars, queue, request, submitted, closer, leds, faces, now>>

\* (variant: no break after shutdown(), the loop goes on)
ShutdownReturnNoBreak(s, t) ==
    /\ pc[s][t] = "shutdown"
    /\ pc' = [pc EXCEPT ![s][t] = "get"]
    /\ log' = [log EXCEPT ![s] = Append(@, <<"shutdown", 0>>)]
    /\ leds' = IF s = "animator" THEN <<"rgb_off", 0>> ELSE leds
    /\ UNCHANGED <<lvars, queue, request, submitted, closer, faces, shots, now>>

\* shutdown() returns and the loop breaks: the thread ends.
ShutdownReturn(s, t) ==
    /\ pc[s][t] = "shutdown"
    /\ pc' = [pc EXCEPT ![s][t] = "exited"]
    /\ log' = [log EXCEPT ![s] = Append(@, <<"shutdown", 0>>)]
    /\ leds' = IF s = "animator" THEN <<"rgb_off", 0>> ELSE leds
    /\ UNCHANGED <<lvars, queue, request, submitted, closer, faces, shots, now>>

\* Animator.shutdown updates the LEDs, which can raise; the thread ends.
ShutdownRaise(s, t) ==
    /\ pc[s][t] = "shutdown"
    /\ s = "animator"
    /\ pc' = [pc EXCEPT ![s][t] = "raised"]
    /\ log' = [log EXCEPT ![s] = Append(@, <<"shutdown_raise", 0>>)]
    /\ UNCHANGED <<lvars, queue, request, submitted, closer, leds, faces, shots, now>>

\* ------------------------------------------------------------- the clients
\* What each service is sent: Player.play(sound), Photographer.update_faces
\* (a tuple) and Photographer.shoot(camera), Animator.update_joy_score.
Payloads(s) ==
    CASE s = "player" -> {[kind |-> "sound", val |-> BEEP_SOUND]}
      [] s = "photographer" ->
            {[kind |-> "tuple", val |-> b] : b \in Batches}
                \cup {[kind |-> "camera", val |-> size] : size \in Resolutions}
      [] s = "animator" -> {[kind |-> "score", val |-> j] : j \in Scores}

\* Service.submit
Submit(s, p) ==
    /\ LET r == [id |-> Len(submitted[s]) + 1, kind |-> p.kind, val |-> p.val] IN
        /\ queue' = [queue EXCEPT ![s] = QueuePut(@, r)]
        /\ submitted' = [submitted EXCEPT ![s] = Append(@, r)]
    /\ UNCHANGED <<pc, request, log, closer, leds, faces, shots, now>>

\* (variant: close() joins without putting the sentinel)
CloseCallNoSentinel(s) ==
    /\ closer[s].state # "join"
    /\ closer' = [closer EXCEPT ![s].state = "join", ![s].snap = Len(submitted[s])]
    /\ UNCHANGED <<queue, pc, request, log, submitted, leds, faces, shots, now>>

\* Service.close, first half: self._requests.put(None)
CloseCall(s) ==
    /\ closer[s].state # "join"
    /\ queue' = [queue EXCEPT ![s] = QueuePut(@, None)]
    /\ closer' = [closer EXCEPT ![s].state = "join", ![s].snap = Len(submitted[s])]
    /\ UNCHANGED <<pc, request, log, submitted, leds, faces, shots, now>>

\* (variant: close() does not join)
JoinNoWait(s) == TRUE

\* self._thread.join() returns once the thread has ended.
JoinDone(s) == \A t \in ThreadsStarted : ~Alive(s, t)

\* Service.close, second half
CloseReturn(s) ==
    /\ closer[s].state = "join"
    /\ JoinDone(s)
    /\ closer' = [closer EXCEPT ![s].state = "returned", ![s].returns = @ + 1]
    /\ UNCHANGED <<queue, pc, request, log, submitted, leds, faces, shots, now>>

\* --------------------------------------------------------- specifications
Sum3(f) == f["player"] + f["photographer"] + f["animator"]
NumSubmitted == Sum3([s \in Services |-> Len(submitted[s])])
NumSentinels(s) == Cardinality({i \in 1..Len(queue[s]) : queue[s][i] = None})
    + Cardinality({i \in 1..Len(log[s]) : log[s][i][1] = "None"})
NumClose == Sum3([s \in Services |-> NumSentinels(s)])

Consumer(s, t) ==
    \/ Get(s, t)
    \/ ProcessReturn(s, t)
    \/ ProcessRaise(s, t)
    \/ ShutdownReturn(s, t)
    \/ ShutdownRaise(s, t)

Consumers == \E s \in Services : \E t \in ThreadIds : Consumer(s, t)

ClientSubmit == \E s \in ClientServices : \E p \in Payloads(s) :
    NumSubmitted < MaxReq /\ Submit(s, p) /\ UNCHANGED lvars

ClientClose == \E s \in ClientServices : NumClose < MaxClose /\ CloseCall(s) /\ UNCHANGED lvars

ClientJoin == \E s \in ClientServices : CloseReturn(s) /\ UNCHANGED lvars

Next == Consumers \/ ClientSubmit \/ ClientClose \/ ClientJoin

Spec == Init /\ [][Next]_vars

\* -------------------------------------------------------- the capture loop
\* capture_loop enters these on its ExitStack, in this order.
Resources == <<"leds", "camera", "privacy", "player", "photographer">>
LoopServices == {"player", "photographer"}

Push(res) == stack' = Append(stack, res)

\* The body of the with block is left: normally, or by what was raised.
Left(how) == leave' = [how |-> how, at |-> mpc]

\* stack.enter_context(...): the next resource is acquired and pushed; for a
\* service, its constructor has started the consumer thread.
Enter ==
    /\ mpc = "enter"
    /\ LET res == Resources[Len(stack) + 1] IN
        /\ Push(res)
        /\ pc' = IF res \in LoopServices THEN [pc EXCEPT ![res] = Started] ELSE pc
    /\ acquired' = Append(acquired, Resources[Len(stack) + 1])
    /\ mpc' = IF Len(stack) + 1 = Len(Resources) THEN "server" ELSE "enter"
    /\ UNCHANGED <<queue, request, log, submitted, closer, leds, faces, shots, now>>
    /\ UNCHANGED <<released, exc, results, dispatch, blink, status, slept, leave>>

\* Acquiring the next resource raises. Service.__init__ runs first in the
\* constructors of Player and Photographer, so their thread is running by
\* the time TonePlayer(...) or ImageFont.truetype(...) can raise.
EnterRaise ==
    /\ mpc = "enter"
    /\ LET res == Resources[Len(stack) + 1] IN
        pc' = IF res \in LoopServices THEN [pc EXCEPT ![res] = Started] ELSE pc
    /\ exc' = "Exception"
    /\ Left("Exception")
    /\ mpc' = "unwind"
    /\ UNCHANGED <<queue, request, log, submitted, closer, leds, faces, shots, now>>
    /\ UNCHANGED <<stack, released, results, dispatch, blink, status, slept, acquired>>

\* server = StreamingServer(camera), then run_inference() loads the model.
Server ==
    /\ mpc = "server"
    /\ mpc' = "next"
    /\ UNCHANGED <<svars, stack, released, exc, results, dispatch, blink, status, slept, acquired, leave>>

\* (variant: the loop body runs without the `if faces:` test)
LoopNextAlways(r) ==
    /\ mpc = "next"
    /\ Len(results) < MaxCycles
    /\ results' = Append(results, r)
    /\ mpc' = "play"
    /\ UNCHANGED <<svars, stack, released, exc, dispatch, blink, status, slept, acquired, leave>>

\* for faces, frame_size in run_inference(): the next result, and `if faces:`
LoopNext(r) ==
    /\ mpc = "next"
    /\ Len(results) < MaxCycles
    /\ results' = Append(results, r)
    /\ mpc' = IF r[1] # <<>> THEN "play" ELSE "next"
    /\ UNCHANGED <<svars, stack, released, exc, dispatch, blink, status, slept, acquired, leave>>

\* inference.run() ends: the for loop is left normally.
LoopEnd ==
    /\ mpc = "next"
    /\ Left("normal")
    /\ mpc' = "unwind"
    /\ UNCHANGED <<svars, stack, released, exc, results, dispatch, blink, status, slept, acquired>>

\* inference raises (CameraInference, get_faces).
LoopRaise ==
    /\ mpc \in {"server", "next"}
    /\ exc' = "Exception"
    /\ Left("Exception")
    /\ mpc' = "unwind"
    /\ UNCHANGED <<svars, stack, released, results, dispatch, blink, status, slept, acquired>>

Dispatched(s, kind) == dispatch' = Append(dispatch, <<Len(results), s, kind>>)

\* player.play(BEEP_SOUND)
LoopPlay ==
    /\ mpc = "play"
    /\ Submit("player", [kind |-> "sound", val |-> BEEP_SOUND])
    /\ Dispatched("player", "sound")
    /\ mpc' = "update"
    /\ UNCHANGED <<stack, released, exc, results, blink, status, slept, acquired, leave>>

\* (variant: the detections are not sent to the Photographer)
LoopUpdateSkipped ==
    /\ mpc = "update"
    /\ mpc' = "shoot"
    /\ UNCHANGED <<svars, stack, released, exc, results, dispatch, blink, status, slept, acquired, leave>>

\* photographer.update_faces((faces, frame_size))
LoopUpdate ==
    /\ mpc = "update"
    /\ Submit("photographer", [kind |-> "tuple", val |-> results[Len(results)]])
    /\ Dispatched("photographer", "tuple")
    /\ mpc' = "shoot"
    /\ UNCHANGED <<stack, released, exc, results, blink, status, slept, acquired, leave>>

\* (variant: no sleep after the shot, the loop takes the next result at once)
LoopShootNoSleep ==
    /\ mpc = "shoot"
    /\ Submit("photographer", [kind |-> "camera", val |-> CameraResolution])
    /\ Dispatched("photographer", "camera")
    /\ mpc' = "next"
    /\ UNCHANGED <<stack, released, exc, results, blink, status, slept, acquired, leave>>

\* photographer.shoot(camera)
LoopShoot ==
    /\ mpc = "shoot"
    /\ Submit("photographer", [kind |-> "camera", val |-> CameraResolution])
    /\ Dispatched("photographer", "camera")
    /\ mpc' = "sleep"
    /\ UNCHANGED <<stack, released, exc, results, blink, status, slept, acquired, leave>>

\* sleep(SLEEP_SECONDS) returns, that much later.
LoopSleep ==
    /\ mpc = "sleep"
    /\ mpc' = "next"
    /\ slept' = slept + 1
    /\ now' = now + SLEEP_SECONDS * TicksPerSecond
    /\ UNCHANGED <<queue, pc, request, log, submitted, closer, leds, faces, shots>>
    /\ UNCHANGED <<stack, released, exc, results, dispatch, blink, status, acquired, leave>>

\* Ctrl-C: KeyboardInterrupt is raised in the main thread wherever it is
\* inside the with block.
Interrupt ==
    /\ mpc \in {"enter", "server", "next", "play", "update", "shoot", "sleep"}
    /\ exc' = "KeyboardInterrupt"
    /\ Left("KeyboardInterrupt")
    /\ mpc' = "unwind"
    /\ UNCHANGED <<svars, stack, released, results, dispatch, blink, status, slept, acquired>>

Top == stack[Len(stack)]

\* (variant: the resource entered first is exited first)
PopFront ==
    /\ released' = Append(released, Head(stack))
    /\ stack' = Tail(stack)

\* ExitStack pops its callbacks last in, first out.
Pop ==
    /\ released' = Append(released, Top)
    /\ stack' = SubSeq(stack, 1, Len(stack) - 1)

\* ExitStack.__exit__: the last resource entered is exited; Service.__exit__
\* calls close(), whose first half puts the sentinel.
Unwind ==
    /\ mpc = "unwind"
    /\ stack # <<>>
    /\ IF Top \in LoopServices
         THEN /\ CloseCall(Top)
              /\ mpc' = "join"
              /\ UNCHANGED <<stack, released>>
         ELSE /\ Pop
              /\ UNCHANGED <<svars, mpc>>
    /\ UNCHANGED <<exc, results, dispatch, blink, status, slept, acquired, leave>>

\* close(), second half: join() returns and __exit__ with it.
UnwindJoin ==
    /\ mpc = "join"
    /\ CloseReturn(Top)
    /\ Pop
    /\ mpc' = "unwind"
    /\ UNCHANGED <<exc, results, dispatch, blink, status, slept, acquired, leave>>

\* Ctrl-C while close() waits in join(): close() and __exit__ raise
\* KeyboardInterrupt, the ExitStack keeps it as the exception to leave with
\* and goes on with the resources entered before.
InterruptJoin ==
    /\ mpc = "join"
    /\ exc' = "KeyboardInterrupt"
    /\ Pop
    /\ mpc' = "unwind"
    /\ UNCHANGED <<svars, results, dispatch, blink, status, slept, acquired, leave>>

\* (variant: one except clause for KeyboardInterrupt and Exception alike)
MainReturnBlinkAll ==
    /\ mpc = "unwind"
    /\ stack = <<>>
    /\ blink' = (exc # "none")
    /\ status' = 0
    /\ mpc' = "done"
    /\ UNCHANGED <<svars, stack, released, exc, results, dispatch, slept, acquired, leave>>

\* main(): capture_loop() has returned or raised; KeyboardInterrupt is passed
\* over, any other Exception shows the red blink for a second; return 0.
MainReturn ==
    /\ mpc = "unwind"
    /\ stack = <<>>
    /\ blink' = (exc = "Exception")
    /\ status' = 0
    /\ mpc' = "done"
    /\ UNCHANGED <<svars, stack, released, exc, results, dispatch, slept, acquired, leave>>

LoopConsumer(s, t) ==
    \/ Get(s, t)
    \/ ProcessReturn(s, t)
    \/ ProcessRaise(s, t)
    \/ ShutdownReturn(s, t)

LoopConsumers == \E s \in LoopServices : \E t \in ThreadIds : LoopConsumer(s, t)

\* What run_inference yields in cycle c: no face, or faces and a frame size
\* that differ from those of the cycle before.
Detections(c) == {NoFaces, IF c % 2 = 1 THEN OneFace ELSE TwoFaces}

LoopNexts == \E r \in Detections(Len(results) + 1) : LoopNext(r)

LoopInit == InitServices({}) /\ InitMain("enter")

LoopStep ==
    \/ Enter \/ EnterRaise \/ Server
    \/ LoopNexts \/ LoopEnd \/ LoopRaise
    \/ LoopPlay \/ LoopUpdate \/ LoopShoot \/ LoopSleep
    \/ Interrupt \/ InterruptJoin
    \/ Unwind \/ UnwindJoin \/ MainReturn
    \/ LoopConsumers

LoopSpec == LoopInit /\ [][LoopStep]_vars

\* ------------------------------------------------- one Photographer alone
\* A client holding a Photographer and a camera calls update_faces and shoot
\* in any order while the clock runs.
PhotoInit == InitServices({"photographer"}) /\ InitMain("off")

PhotoSubmit == \E p \in Payloads("photographer") :
    /\ Len(submitted["photographer"]) < MaxPhotoReq
    /\ Submit("photographer", p)
    /\ UNCHANGED lvars

Tick ==
    /\ now < MaxTime
    /\ now' = now + 1
    /\ UNCHANGED <<lvars, queue, pc, request, log, submitted, closer, leds, faces, shots>>

PhotoConsumer(t) ==
    \/ Get("photographer", t)
    \/ ProcessReturn("photographer", t)
    \/ ProcessRaise("photographer", t)

PhotoConsumers == \E t \in ThreadIds : PhotoConsumer(t)

PhotoNext == PhotoSubmit \/ Tick \/ PhotoConsumers

PhotoSpec == PhotoInit /\ [][PhotoNext]_vars

\* The same transitions with the scheduling the threads get: every consumer
\* thread that can take a step eventually does, and so does a caller whose
\* join() can return.
LiveSpec ==
    /\ Init
    /\ [][Next]_vars
    /\ \A s \in Services : WF_vars(\E t \in ThreadIds : Consumer(s, t))
    /\ \A s \in Services : WF_vars(CloseReturn(s) /\ UNCHANGED lvars)

\* ----------------------------------------------------- reading the history
Events(s, kinds) == SelectSeq(log[s], LAMBDA e : e[1] \in kinds)
Count(s, kind, id) ==
    Cardinality({i \in 1..Len(log[s]) : log[s][i] = <<kind, id>>})
Has(s, kind) == \E i \in 1..Len(log[s]) : log[s][i][1] = kind
IsRequest(item) == item # None
Pending(s) == SelectSeq(queue[s], IsRequest)
InProcess(s) == {t \in ThreadIds : pc[s][t] = "process"}

\* Where a consumer thread is in the lifecycle: not yet started, Running,
\* Draining, Terminated.
Rank(p) ==
    CASE p = "unstarted" -> 0
      [] p \in {"get", "process"} -> 1
      [] p = "shutdown" -> 2
      [] p \in {"exited", "raised"} -> 3

IsPrefix(a, b) == Len(a) <= Len(b) /\ SubSeq(b, 1, Len(a)) = a

\* What the capture loop submitted in cycle c, and to service s.
FullCycle == <<<<"player", "sound">>, <<"photographer", "tuple">>, <<"photographer", "camera">>>>
OfCycle(c) == SelectSeq(dispatch, LAMBDA d : d[1] = c)
CycleDispatch(c) == [i \in 1..Len(OfCycle(c)) |-> <<OfCycle(c)[i][2], OfCycle(c)[i][3]>>]
SentTo(s) == SelectSeq(dispatch, LAMBDA d : d[2] = s)

\* The Photographer's cache-update messages whose process call has returned,
\* in that order, and the capture triggers whose call has returned or raised.
UpdatesDone ==
    SelectSeq(log["photographer"],
        LAMBDA e : e[1] = "end" /\ submitted["photographer"][e[2]].kind = "tuple")
ShotsDone ==
    SelectSeq(log["photographer"],
        LAMBDA e : e[1] \in {"end", "raise"} /\ submitted["photographer"][e[2]].kind = "camera")

Reverse(seq) == [i \in 1..Len(seq) |-> seq[Len(seq) + 1 - i]]

\* The capture triggers the loop submitted, and whether the loop is in (or
\* was interrupted in) the sleep that follows one.
Triggers == SelectSeq(dispatch, LAMBDA d : d[3] = "camera")
InCooldown == mpc = "sleep" \/ (mpc \in {"unwind", "join", "done"} /\ leave.at = "sleep")

\* --------------------------------------------------------------- the claims

\* C1: a service's consumer calls process on the requests in the order they
\* were submitted, and each call has completed before the next one starts.
C1_Fifo ==
    \A s \in Services : \A i, j \in 1..Len(log[s]) :
        (i < j /\ log[s][i][1] = "start" /\ log[s][j][1] = "start")
            => /\ log[s][i][2] < log[s][j][2]
               /\ \E k \in (i + 1)..(j - 1) : log[s][k] = <<"end", log[s][i][2]>>

C1_Witness ==
    \E s \in Services : Events(s, {"start"}) = <<<<"start", 1>>, <<"start", 2>>, <<"start", 3>>>>

\* C2: once a close() of a service has returned, none of its threads is alive
\* and no process call starts any more, whatever is or gets queued.
C2_ClosedStaysQuiet ==
    [][\A s \in Services : closer[s].returns > 0 =>
            /\ \A t \in ThreadIds : ~Alive(s, t)
            /\ log'[s] = log[s]]_vars

C2_Witness ==
    \E s \in Services :
        /\ closer[s].returns > 0
        /\ Has(s, "end")
        /\ Pending(s) # <<>>

\* C3: when close() returns, every request submitted before that close() was
\* called has been processed exactly once.
C3_NoRequestLost ==
    \A s \in Services : closer[s].state = "returned" =>
        \A id \in 1..closer[s].snap : Count(s, "start", id) = 1

\* C4: a consumer only moves Running -> Draining -> Terminated, and after it
\* took the sentinel it takes nothing more from the queue: the sentinel is the
\* last item consumed.
C4_ForwardOnly ==
    [][\A s \in Services :
        /\ \A t \in ThreadIds : Rank(pc'[s][t]) >= Rank(pc[s][t])
        /\ Has(s, "None") =>
            /\ IsPrefix(queue[s], queue'[s])
            /\ Events(s, {"None", "start"})' = Events(s, {"None", "start"})
            /\ LET taken == Events(s, {"None", "start"}) IN taken[Len(taken)][1] = "None"
      ]_vars

C4_Witness ==
    \E s \in Services :
        /\ pc[s][1] = "exited"
        /\ Len(queue[s]) = 2
        /\ IsRequest(queue[s][1])
        /\ queue[s][2] = None

\* C5: when close() returns, the shutdown hook has run exactly once, after the
\* last processed request, and the Animator's LEDs are off.
C5_ShutdownOnce ==
    \A s \in Services : closer[s].state = "returned" =>
        /\ Len(Events(s, {"shutdown"})) = 1
        /\ \A i, j \in 1..Len(log[s]) :
            (log[s][i][1] = "shutdown" /\ log[s][j][1] \in {"start", "end", "raise"}) => j < i
        /\ s = "animator" => leds = <<"rgb_off", 0>>

\* C6: with process calls that complete and consumers that are scheduled,
\* every close() that was called returns.
C6_CloseReturns ==
    \A s \in Services : (closer[s].state = "join") ~> (closer[s].state = "returned")

C6_Witness ==
    \E s \in Services :
        /\ closer[s].state = "returned"
        /\ closer[s].snap >= 2
        /\ Len(Events(s, {"end"})) >= 2
        /\ Has(s, "shutdown")

\* C7: submit is enabled in every state, and while the first process call
\* is running every request submitted so far is that one or is in the queue,
\* in submission order.
C7_SubmitNeverBlocksNorDrops ==
    \A s \in Services :
        /\ \A p \in Payloads(s) : ENABLED Submit(s, p)
        /\ \A t \in InProcess(s) : request[s][t].id = 1 =>
                <<request[s][t]>> \o Pending(s) = submitted[s]

C7_Witness ==
    \E s \in Services : \E t \in InProcess(s) :
        /\ request[s][t].id = 1
        /\ Len(Pending(s)) = 2

\* C8: a service has one consumer thread, so at most one of its process or
\* shutdown calls is in progress at a time; calls of different services overlap.
C8_OneConsumer ==
    \A s \in Services :
        /\ Cardinality({t \in ThreadIds : pc[s][t] # "unstarted"})
                = IF s \in ClientServices THEN 1 ELSE 0
        /\ Cardinality({t \in ThreadIds : pc[s][t] \in {"process", "shutdown"}}) <= 1

C8_Witness ==
    \E s, o \in Services :
        /\ s # o
        /\ InProcess(s) # {}
        /\ InProcess(o) # {}

\* C9: after a process call raised, the thread of that service is gone for
\* good, its shutdown hook does not run, nothing queued is processed, submit
\* still accepts, and the step that raised changed nothing of another service
\* nor of the main thread.
C9_RaiseStallsQuietly ==
    [][\A s \in Services :
        /\ Has(s, "raise") =>
            /\ \A t \in ThreadIds : ~Alive(s, t)
            /\ pc'[s] = pc[s]
            /\ log'[s] = log[s]
            /\ ~Has(s, "shutdown")
            /\ IsPrefix(queue[s], queue'[s])
            /\ \A p \in Payloads(s) : ENABLED Submit(s, p)
        /\ (~Has(s, "raise") /\ Has(s, "raise")') =>
            /\ \A o \in Services \ {s} :
                /\ queue'[o] = queue[o]
                /\ pc'[o] = pc[o]
                /\ log'[o] = log[o]
                /\ closer'[o] = closer[o]
            /\ UNCHANGED lvars
      ]_vars

C9_Witness ==
    \E s, o \in Services :
        /\ s # o
        /\ Has(s, "raise")
        /\ \E i \in 1..Len(queue[s]) : queue[s][i].id > Len(Events(s, {"start"}))
        /\ Len(Events(o, {"end"})) = 2
        /\ mpc = "sleep"

\* C10: a cycle with detections submits the beep to the Player, then the
\* detections to the Photographer, then the camera to the Photographer, once
\* each and in that order; a cycle without detections submits nothing.
C10_CycleDispatch ==
    /\ \A c \in 1..Len(results) :
        IF results[c][1] = <<>>
          THEN CycleDispatch(c) = <<>>
          ELSE /\ IsPrefix(CycleDispatch(c), FullCycle)
               /\ (c < Len(results) \/ mpc \in {"sleep", "next"})
                    => CycleDispatch(c) = FullCycle
    /\ \A i \in 1..Len(dispatch) :
        /\ dispatch[i][1] >= 1
        /\ i > 1 => dispatch[i - 1][1] <= dispatch[i][1]
    /\ \A s \in LoopServices :
        /\ Len(submitted[s]) = Len(SentTo(s))
        /\ \A i \in 1..Len(submitted[s]) :
            /\ submitted[s][i].kind = SentTo(s)[i][3]
            /\ submitted[s][i].kind = "sound" => submitted[s][i].val = BEEP_SOUND
            /\ submitted[s][i].kind = "tuple" => submitted[s][i].val = results[SentTo(s)[i][1]]

C10_Witness ==
    /\ mpc = "sleep"
    /\ results = <<NoFaces, TwoFaces>>
    /\ Len(dispatch) = 3

\* C11: the loop goes Idle -> Triggered -> Cooldown -> Idle: every capture
\* trigger but the last has had its full sleep, the last one has had it unless
\* the loop is still in that sleep, each sleep lasted SLEEP_SECONDS, and no
\* inference result is consumed between a trigger and the end of its sleep, so
\* every trigger belongs to a cycle of its own.
C11_Cooldown ==
    /\ Len(Triggers) = slept + (IF InCooldown THEN 1 ELSE 0)
    /\ InCooldown => Triggers[Len(Triggers)][1] = Len(results)
    /\ \A i, j \in 1..Len(Triggers) : i < j => Triggers[i][1] < Triggers[j][1]
    /\ now >= slept * SLEEP_SECONDS * TicksPerSecond

C11_Witness ==
    /\ Len(Triggers) = 2
    /\ slept = 1
    /\ mpc = "sleep"
    /\ now = SLEEP_SECONDS * TicksPerSecond

\* C12: at any moment what was acquired is what is still held followed by
\* what was released, the latter in reverse order of acquisition and once
\* each; when main() is done, on whatever path the loop was left, everything
\* acquired has been released.
C12_ReverseRelease ==
    /\ stack \o Reverse(released) = acquired
    /\ IsPrefix(acquired, Resources)
    /\ mpc = "done" =>
        /\ leave.how \in {"normal", "KeyboardInterrupt", "Exception"}
        /\ stack = <<>>
        /\ released = Reverse(acquired)

C12_Witness ==
    /\ mpc = "done"
    /\ leave = [how |-> "Exception", at |-> "enter"]
    /\ acquired = <<"leds", "camera", "privacy", "player">>
    /\ released = <<"player", "privacy", "camera", "leds">>

\* C13: when an error other than a user interrupt escaped capture_loop, main()
\* has shown the red blink pattern and ends with a non-zero exit code.
C13_ErrorExit ==
    (mpc = "done" /\ exc = "Exception") => (blink /\ status # 0)

\* C14: when the loop was left by a user interrupt, wherever it was, main()
\* ends with everything acquired released, without the red blink, and with
\* exit code 0.
C14_InterruptClean ==
    (mpc = "done" /\ leave.how = "KeyboardInterrupt") =>
        /\ exc = "KeyboardInterrupt"
        /\ stack = <<>>
        /\ released = Reverse(acquired)
        /\ ~blink
        /\ status = 0

C14_Witness ==
    /\ mpc = "done"
    /\ leave = [how |-> "KeyboardInterrupt", at |-> "sleep"]
    /\ released = Reverse(Resources)
    /\ ~blink
    /\ status = 0

\* C15: the Photographer's cache is the pair of the last cache update whose
\* processing has returned, the initial empty pair if there is none, whatever
\* captures were processed in between; and only capture triggers call the
\* camera or write files: one capture per processed trigger, none for an
\* update.
C15_CacheReplaced ==
    /\ faces = IF UpdatesDone = <<>>
                 THEN InitialFaces
                 ELSE submitted["photographer"][UpdatesDone[Len(UpdatesDone)][2]].val
    /\ Len(shots) = Len(ShotsDone)
    /\ \A i \in 1..Len(shots) : shots[i].id = ShotsDone[i][2]

C15_Witness ==
    /\ faces = TwoFaces
    /\ Len(UpdatesDone) = 2
    /\ Len(shots) = 1
    /\ shots[1].cache = OneFace

\* C16: a capture trigger whose processing returned has written the original
\* and, for each of the k cached detections, a cropped artifact holding the
\* crop to that detection's scaled corners: 1 + k artifacts, the original
\* alone when the cached set is empty.
C16_CropPerDetection ==
    \A i \in 1..Len(shots) :
        Count("photographer", "end", shots[i].id) = 1 =>
            LET k == Len(shots[i].cache[1])
                written == {shots[i].writes[w] : w \in 1..Len(shots[i].writes)}
            IN  /\ \E w \in written : w.content = <<"original">>
                /\ \A d \in 1..k :
                    \E w \in written : w.content = <<"crop", shots[i].crops[d]>>
                /\ Cardinality({w.path : w \in written}) = 1 + k

\* C17: over all the captures one Photographer has processed, no file path,
\* original or cropped, has been written more than once.
C17_WriteOnce ==
    \A i, j \in 1..Len(shots) :
        \A v \in 1..Len(shots[i].writes) : \A w \in 1..Len(shots[j].writes) :
            <<i, v>> # <<j, w>> => shots[i].writes[v].path # shots[j].writes[w].path

\* C18: scale_bounding_box((x, y, w, h), sx, sy) is (x*sx, y*sy, w*sx, h*sy)
\* and the corner conversion of (x, y, w, h) is (x, y, x+w, y+h), for the
\* boxes and scale factors at hand; and the corners a capture cropped a
\* cached detection to are (x*sx, y*sy, x*sx + w*sx, y*sy + h*sy) with
\* sx = image width / cached frame width, sy = image height / cached frame
\* height.
C18_Geometry ==
    /\ \A f \in {Face1, Face2, Face3} : \A size \in Resolutions : \A b \in Batches :
        LET x == f.bounding_box[1]
            y == f.bounding_box[2]
            w == f.bounding_box[3]
            h == f.bounding_box[4]
            sx == <<size[1], b[2][1]>>
            sy == <<size[2], b[2][2]>>
            scaled == scale_bounding_box(f.bounding_box, sx, sy)
            corners == bounding_extent_to_corners(scaled, size)
        IN  /\ REq(scaled[1], <<x * sx[1], sx[2]>>)
            /\ REq(scaled[2], <<y * sy[1], sy[2]>>)
            /\ REq(scaled[3], <<w * sx[1], sx[2]>>)
            /\ REq(scaled[4], <<h * sy[1], sy[2]>>)
            /\ corners[1] = scaled[1]
            /\ corners[2] = scaled[2]
            /\ REq(corners[3], <<scaled[1][1] * scaled[3][2] + scaled[3][1] * scaled[1][2],
                                 scaled[1][2] * scaled[3][2]>>)
            /\ REq(corners[4], <<scaled[2][1] * scaled[4][2] + scaled[4][1] * scaled[2][2],
                                 scaled[2][2] * scaled[4][2]>>)
    /\ \A i \in 1..Len(shots) :
        /\ Len(shots[i].crops) \in {0, Len(shots[i].cache[1])}
        /\ \A d \in 1..Len(shots[i].crops) :
            LET box == shots[i].cache[1][d].bounding_box
                image_width == shots[i].image_size[1]
                image_height == shots[i].image_size[2]
                width == shots[i].cache[2][1]
                height == shots[i].cache[2][2]
                corners == shots[i].crops[d]
            IN  /\ REq(corners[1], <<box[1] * image_width, width>>)
                /\ REq(corners[2], <<box[2] * image_height, height>>)
                /\ REq(corners[3], <<(box[1] + box[3]) * image_width, width>>)
                /\ REq(corners[4], <<(box[2] + box[4]) * image_height, height>>)

C18_Witness ==
    \E i \in 1..Len(shots) :
        /\ shots[i].cache = TwoFaces
        /\ shots[i].image_size = <<1640, 1232>>
        /\ Len(shots[i].crops) = 2
        /\ Count("photographer", "end", shots[i].id) = 1

\* C19: a capture trigger the loop dispatched in cycle c is processed with
\* the Photographer's cache equal to the result of cycle c: its process call,
\* while it runs and when it has returned or raised, sees that pair, which is
\* never the initial pair and never has a zero frame dimension.
C19_OwnCyclePair ==
    LET cycle(id) == SentTo("photographer")[id][1] IN
    /\ \A i \in 1..Len(shots) :
        /\ shots[i].cache = results[cycle(shots[i].id)]
        /\ shots[i].cache # InitialFaces
        /\ shots[i].cache[2][1] # 0 /\ shots[i].cache[2][2] # 0
    /\ \A t \in InProcess("photographer") :
        request["photographer"][t].kind = "camera" =>
            /\ faces = results[cycle(request["photographer"][t].id)]
            /\ ~DivisionByZero(faces)

C19_Witness ==
    /\ results = <<OneFace, TwoFaces>>
    /\ Len(shots) = 2
    /\ shots[1].cache = OneFace
    /\ shots[2].cache = TwoFaces
    /\ Len(Events("photographer", {"end"})) = 4

\* C20: once the camera has been released, the consumer thread of the
\* Photographer the loop had acquired has ended, and every capture was invoked
\* on a camera that was still acquired.
C20_ConsumerGoneBeforeCamera ==
    /\ (\E i \in 1..Len(released) : released[i] = "camera") =>
            \A j \in 1..Len(acquired) : acquired[j] = "photographer" =>
                \A t \in ThreadIds : ~Alive("photographer", t)
    /\ \A i \in 1..Len(shots) : shots[i].open

====
